---- MODULE Spec2Model ----
(***************************************************************************)
(* Gold Perfium front end: the cart manager (js/cart.js) over localStorage, *)
(* the rate limiter, the storage obfuscation, the constant-time comparison *)
(* and the CSRF token of js/security.js, and the admin requests of         *)
(* js/api.js.                                                              *)
(*                                                                         *)
(* A storage item is [present, text]: getItem returns null when the key is *)
(* unset (present = FALSE), otherwise the stored string.  A stored string  *)
(* is a sequence of tokens of JSON text (punctuation commas and colons are *)
(* left out, every other token of the text is kept).                       *)
(***************************************************************************)
EXTENDS Integers, Sequences, FiniteSets, TLC

VARIABLES storage, cart, status, lastOp, now, session, recorded, rl,
          crypt, eq, csrfItem, csrfOp, auth, api, tabB

vars == <<storage, cart, status, lastOp, now, session, recorded, rl,
          crypt, eq, csrfItem, csrfOp, auth, api, tabB>>

(* The state of the other components: the obfuscation helpers, the string
   comparison, the CSRF token, the admin requests and a second tab.  Neither
   the cart manager of the first tab nor the rate limiter touches it. *)
otherVars == <<crypt, eq, csrfItem, csrfOp, auth, api, tabB>>

cartState == <<storage, cart, status, lastOp>>
rateState == <<now, session, recorded, rl>>

(* What the rate limiter leaves alone, and what the cart manager leaves
   alone *)
cartVars == <<cartState, otherVars>>
rateVars == <<rateState, otherVars>>

----------------------------------------------------------------------------
(* Bounds *)

MaxQty == 2
MaxTime == 4
MaxAttempts == 3
WindowMs == 2

(* Quantities passed to addItem and kept in a line; changes passed to
   updateQuantity *)
Quantities == {0 - 1, 0} \cup 1..MaxQty
Changes == (0 - MaxQty)..MaxQty
Keys == {"login", "order"}

(* The catalog: a product exposes an id and, optionally, a price.  Product 1
   is listed at two prices (its price changes between two adds). *)
Products ==
    { [id |-> 1, price |-> 10], [id |-> 1, price |-> 5],
      [id |-> 2], [id |-> 3, price |-> 5] }

ProductIds == {p.id : p \in Products}

NoProduct == [id |-> 0]

----------------------------------------------------------------------------
(* JSON text *)

Sym(s) == [t |-> s, n |-> 0]
Num(n) == [t |-> "num", n |-> n]

NoItem == [present |-> FALSE, text |-> <<>>]
Item(text) == [present |-> TRUE, text |-> text]

ProductText(p) ==
    <<Sym("{"), Sym("id"), Num(p.id)>>
    \o (IF "price" \in DOMAIN p THEN <<Sym("price"), Num(p.price)>> ELSE <<>>)
    \o <<Sym("}")>>

LineText(l) ==
    <<Sym("{"), Sym("product")>> \o ProductText(l.product)
    \o <<Sym("quantity"), Num(l.quantity)>>
    \o (IF "unitPrice" \in DOMAIN l
        THEN <<Sym("unitPrice"), Num(l.unitPrice)>> ELSE <<>>)
    \o <<Sym("}")>>

RECURSIVE LinesText(_)
LinesText(c) ==
    IF c = <<>> THEN <<>> ELSE LineText(Head(c)) \o LinesText(Tail(c))

(* JSON.stringify(this.cart) *)
JSONstringify(c) == <<Sym("[")>> \o LinesText(c) \o <<Sym("]")>>

TokIs(t, i, s) == i <= Len(t) /\ t[i].t = s

Fail == [ok |-> FALSE, value |-> <<>>, next |-> 0]

(* "{" id n [price n] "}" starting at token i *)
ParseProduct(t, i) ==
    IF TokIs(t, i, "{") /\ TokIs(t, i + 1, "id") /\ TokIs(t, i + 2, "num")
    THEN IF TokIs(t, i + 3, "}")
         THEN [ok |-> TRUE, value |-> [id |-> t[i + 2].n], next |-> i + 4]
         ELSE IF TokIs(t, i + 3, "price") /\ TokIs(t, i + 4, "num")
                 /\ TokIs(t, i + 5, "}")
              THEN [ok |-> TRUE,
                    value |-> [id |-> t[i + 2].n, price |-> t[i + 4].n],
                    next |-> i + 6]
              ELSE Fail
    ELSE Fail

(* "{" product <product> quantity n [unitPrice n] "}" starting at token i *)
ParseLine(t, i) ==
    IF TokIs(t, i, "{") /\ TokIs(t, i + 1, "product")
    THEN LET p == ParseProduct(t, i + 2)
             j == p.next
         IN  IF p.ok /\ TokIs(t, j, "quantity") /\ TokIs(t, j + 1, "num")
             THEN IF TokIs(t, j + 2, "}")
                  THEN [ok |-> TRUE,
                        value |-> [product |-> p.value,
                                   quantity |-> t[j + 1].n],
                        next |-> j + 3]
                  ELSE IF TokIs(t, j + 2, "unitPrice")
                          /\ TokIs(t, j + 3, "num") /\ TokIs(t, j + 4, "}")
                       THEN [ok |-> TRUE,
                             value |-> [product |-> p.value,
                                        quantity |-> t[j + 1].n,
                                        unitPrice |-> t[j + 3].n],
                             next |-> j + 5]
                       ELSE Fail
             ELSE Fail
    ELSE Fail

(* JSON.parse(cartJSON): "[" <line>* "]"; ok = FALSE is the SyntaxError it
   throws.  Every line opens with "{" product, which occurs nowhere else. *)
JSONparse(t) ==
    LET starts == {i \in 1..Len(t) : TokIs(t, i, "{") /\ TokIs(t, i + 1, "product")}
        n == Cardinality(starts)
        nth(k) == CHOOSE i \in starts : Cardinality({j \in starts : j < i}) = k - 1
        end(k) == IF k = n THEN Len(t) ELSE nth(k + 1)
        ok == /\ Len(t) >= 2
              /\ TokIs(t, 1, "[")
              /\ TokIs(t, Len(t), "]")
              /\ IF n = 0 THEN Len(t) = 2 ELSE nth(1) = 2
              /\ \A k \in 1..n :
                    /\ ParseLine(t, nth(k)).ok
                    /\ ParseLine(t, nth(k)).next = end(k)
    IN  IF ok
        THEN [ok |-> TRUE,
              value |-> [k \in 1..n |-> ParseLine(t, nth(k)).value],
              next |-> Len(t) + 1]
        ELSE Fail

----------------------------------------------------------------------------
(* CartManager *)

(* loadCart: cartJSON ? JSON.parse(cartJSON) : [] *)
loadCart(item) ==
    IF item.present /\ item.text # <<>>
    THEN JSONparse(item.text)
    ELSE [ok |-> TRUE, value |-> <<>>, next |-> 0]

(* Variant: the cart is stored without JSON.stringify, so the array is
   coerced to a string ("" for [], "[object Object]" otherwise) *)
saveCartNoStringify(c) ==
    IF c = <<>> THEN Item(<<>>) ELSE Item(<<Sym("[object Object]")>>)

(* saveCart: the item written under the cart key *)
saveCart(c) == Item(JSONstringify(c))

(* this.cart.find(item => item.product.id === id): index of the first
   match, 0 when there is none *)
find(c, id) ==
    IF \E i \in DOMAIN c : c[i].product.id = id
    THEN CHOOSE i \in DOMAIN c :
            /\ c[i].product.id = id
            /\ \A j \in 1..(i - 1) : c[j].product.id # id
    ELSE 0

(* product.price || 0 *)
priceOrZero(product) ==
    IF "price" \in DOMAIN product /\ product.price # 0
    THEN product.price ELSE 0

(* Variant: no lookup, every call pushes a line *)
addItemAlwaysPush(c, product, quantity) ==
    Append(c, [product |-> product,
               quantity |-> quantity,
               unitPrice |-> priceOrZero(product)])

(* Variant: a merge also re-reads the unit price from the product passed *)
addItemRefreshPrice(c, product, quantity) ==
    LET i == find(c, product.id)
    IN  IF i # 0
        THEN [c EXCEPT ![i].quantity = @ + quantity,
                       ![i].unitPrice = priceOrZero(product)]
        ELSE Append(c, [product |-> product,
                        quantity |-> quantity,
                        unitPrice |-> priceOrZero(product)])

(* Variant: a new line is put at the front (unshift instead of push) *)
addItemUnshift(c, product, quantity) ==
    LET i == find(c, product.id)
    IN  IF i # 0
        THEN [c EXCEPT ![i].quantity = @ + quantity]
        ELSE <<[product |-> product,
                quantity |-> quantity,
                unitPrice |-> priceOrZero(product)]>> \o c

addItem(c, product, quantity) ==
    LET i == find(c, product.id)
    IN  IF i # 0
        THEN [c EXCEPT ![i].quantity = @ + quantity]
        ELSE Append(c, [product |-> product,
                        quantity |-> quantity,
                        unitPrice |-> priceOrZero(product)])

removeItem(c, productId) ==
    SelectSeq(c, LAMBDA item : item.product.id # productId)

(* Variant: the line is removed only below 0 (< instead of <=) *)
updateQuantityStrict(c, productId, change) ==
    LET i == find(c, productId)
    IN  IF i # 0
        THEN LET c2 == [c EXCEPT ![i].quantity = @ + change]
             IN  IF c2[i].quantity < 0 THEN removeItem(c2, productId)
                 ELSE c2
        ELSE c

(* Variant: the change is assigned instead of added (= instead of +=) *)
updateQuantityAssign(c, productId, change) ==
    LET i == find(c, productId)
    IN  IF i # 0
        THEN LET c2 == [c EXCEPT ![i].quantity = change]
             IN  IF c2[i].quantity <= 0 THEN removeItem(c2, productId)
                 ELSE c2
        ELSE c

updateQuantity(c, productId, change) ==
    LET i == find(c, productId)
    IN  IF i # 0
        THEN LET c2 == [c EXCEPT ![i].quantity = @ + change]
             IN  IF c2[i].quantity <= 0 THEN removeItem(c2, productId)
                 ELSE c2
        ELSE c

(* item.unitPrice || 0 *)
unitPriceOrZero(item) ==
    IF "unitPrice" \in DOMAIN item /\ item.unitPrice # 0
    THEN item.unitPrice ELSE 0

(* Variant: the price is re-read from the product instead of the line *)
RECURSIVE getTotalFromProduct(_)
getTotalFromProduct(c) ==
    IF c = <<>> THEN 0
    ELSE getTotalFromProduct(SubSeq(c, 1, Len(c) - 1))
         + priceOrZero(c[Len(c)].product) * c[Len(c)].quantity

RECURSIVE getTotal(_)
getTotal(c) ==
    IF c = <<>> THEN 0
    ELSE getTotal(SubSeq(c, 1, Len(c) - 1))
         + unitPriceOrZero(c[Len(c)]) * c[Len(c)].quantity

(* Variant: counts lines instead of summing quantities *)
getItemCountLines(c) == Len(c)

RECURSIVE getItemCount(_)
getItemCount(c) ==
    IF c = <<>> THEN 0
    ELSE getItemCount(SubSeq(c, 1, Len(c) - 1)) + c[Len(c)].quantity

QtyInRange(c) == \A i \in DOMAIN c : c[i].quantity \in Quantities

Op(op, product, id, qty, found, ret) ==
    [op |-> op, product |-> product, id |-> id, qty |-> qty,
     found |-> found, ret |-> ret]

(* Snapshots an earlier page load may have left under the cart key *)
SavedCarts ==
    { <<>>,
      << [product |-> [id |-> 1, price |-> 10], quantity |-> 2,
          unitPrice |-> 10] >> }

InitialItems ==
    {NoItem, Item(<<>>), Item(<<Sym("["), Sym("{")>>)}
    \cup {Item(JSONstringify(c)) : c \in SavedCarts}

(* new CartManager(): this.cart = this.loadCart() *)
Construct ==
    /\ LET r == loadCart(storage)
       IN  IF r.ok
           THEN status' = "ready" /\ cart' = r.value
           ELSE status' = "threw" /\ cart' = <<>>
    /\ lastOp' = Op("construct", NoProduct, 0, 0, FALSE, 0)
    /\ UNCHANGED storage
    /\ UNCHANGED rateVars

AddItem(product, quantity) ==
    /\ status = "ready"
    /\ LET c == addItem(cart, product, quantity)
       IN  /\ QtyInRange(c)
           /\ cart' = c
           /\ storage' = saveCart(c)
    /\ lastOp' = Op("addItem", product, product.id, quantity,
                    find(cart, product.id) # 0, 0)
    /\ UNCHANGED status
    /\ UNCHANGED rateVars

RemoveItem(productId) ==
    /\ status = "ready"
    /\ cart' = removeItem(cart, productId)
    /\ storage' = saveCart(removeItem(cart, productId))
    /\ lastOp' = Op("removeItem", NoProduct, productId, 0,
                    find(cart, productId) # 0, 0)
    /\ UNCHANGED status
    /\ UNCHANGED rateVars

(* Variant: the branch that keeps the line does not call saveCart *)
UpdateQuantityNoSave(productId, change) ==
    /\ status = "ready"
    /\ LET c == updateQuantity(cart, productId, change)
       IN  /\ QtyInRange(c)
           /\ cart' = c
           /\ storage' = IF find(cart, productId) # 0
                            /\ find(c, productId) = 0
                         THEN saveCart(c)
                         ELSE storage
    /\ lastOp' = Op("updateQuantity", NoProduct, productId, change,
                    find(cart, productId) # 0, 0)
    /\ UNCHANGED status
    /\ UNCHANGED rateVars

(* Variant: saveCart is called whether or not the line was found *)
UpdateQuantityAlwaysSave(productId, change) ==
    /\ status = "ready"
    /\ LET c == updateQuantity(cart, productId, change)
       IN  /\ QtyInRange(c)
           /\ cart' = c
           /\ storage' = saveCart(c)
    /\ lastOp' = Op("updateQuantity", NoProduct, productId, change,
                    find(cart, productId) # 0, 0)
    /\ UNCHANGED status
    /\ UNCHANGED rateVars

UpdateQuantity(productId, change) ==
    /\ status = "ready"
    /\ LET c == updateQuantity(cart, productId, change)
       IN  /\ QtyInRange(c)
           /\ cart' = c
           /\ storage' = IF find(cart, productId) # 0 THEN saveCart(c)
                         ELSE storage
    /\ lastOp' = Op("updateQuantity", NoProduct, productId, change,
                    find(cart, productId) # 0, 0)
    /\ UNCHANGED status
    /\ UNCHANGED rateVars

ClearCart ==
    /\ status = "ready"
    /\ cart' = <<>>
    /\ storage' = saveCart(<<>>)
    /\ lastOp' = Op("clearCart", NoProduct, 0, 0, FALSE, 0)
    /\ UNCHANGED status
    /\ UNCHANGED rateVars

GetTotal ==
    /\ status = "ready"
    /\ lastOp' = Op("getTotal", NoProduct, 0, 0, FALSE, getTotal(cart))
    /\ UNCHANGED <<cart, storage, status>>
    /\ UNCHANGED rateVars

GetItemCount ==
    /\ status = "ready"
    /\ lastOp' = Op("getItemCount", NoProduct, 0, 0, FALSE,
                    getItemCount(cart))
    /\ UNCHANGED <<cart, storage, status>>
    /\ UNCHANGED rateVars

----------------------------------------------------------------------------
(* Rate limiter *)

(* JSON.stringify(attempts): an array of timestamps *)
ArrayText(a) ==
    <<Sym("[")>> \o [i \in 1..Len(a) |-> Num(a[i])] \o <<Sym("]")>>

(* JSON.parse of an array of numbers: ok = FALSE is the SyntaxError *)
ParseArray(t) ==
    IF /\ Len(t) >= 2
       /\ TokIs(t, 1, "[")
       /\ TokIs(t, Len(t), "]")
       /\ \A i \in 2..(Len(t) - 1) : TokIs(t, i, "num")
    THEN [ok |-> TRUE, value |-> [i \in 1..(Len(t) - 2) |-> t[i + 1].n]]
    ELSE [ok |-> FALSE, value |-> <<>>]

(* JSON.parse(sessionStorage.getItem(rateLimitKey) || '[]') *)
storedAttempts(item) ==
    IF item.present /\ item.text # <<>>
    THEN ParseArray(item.text)
    ELSE ParseArray(ArrayText(<<>>))

(* attempts.filter(timestamp => now - timestamp < windowMs) *)
inWindow(attempts, t, windowMs) ==
    SelectSeq(attempts, LAMBDA timestamp : t - timestamp < windowMs)

(* Variant: > instead of >= *)
exceededStrict(attempts, maxAttempts) == Len(attempts) > maxAttempts

(* attempts.length >= maxAttempts *)
exceeded(attempts, maxAttempts) == Len(attempts) >= maxAttempts

Rl(op, key, ret, threw) ==
    [op |-> op, key |-> key, ret |-> ret, threw |-> threw]

(* Variant: the attempt is pushed and stored before the limit is tested, so
   a rejected attempt is recorded too *)
CheckRateLimitRecordsRejected(key, maxAttempts, windowMs) ==
    /\ LET parsed == storedAttempts(session[key])
           attempts == inWindow(parsed.value, now, windowMs)
       IN  IF ~parsed.ok
           THEN /\ rl' = Rl("checkRateLimit", key, FALSE, TRUE)
                /\ UNCHANGED <<session, recorded>>
           ELSE IF exceeded(attempts, maxAttempts)
           THEN /\ session' = [session EXCEPT
                                  ![key] = Item(ArrayText(Append(attempts, now)))]
                /\ rl' = Rl("checkRateLimit", key, FALSE, FALSE)
                /\ UNCHANGED recorded
           ELSE /\ session' = [session EXCEPT
                                  ![key] = Item(ArrayText(Append(attempts, now)))]
                /\ recorded' = [recorded EXCEPT ![key] = Append(@, now)]
                /\ rl' = Rl("checkRateLimit", key, TRUE, FALSE)
    /\ UNCHANGED now
    /\ UNCHANGED cartVars

CheckRateLimit(key, maxAttempts, windowMs) ==
    /\ LET parsed == storedAttempts(session[key])
           attempts == inWindow(parsed.value, now, windowMs)
       IN  IF ~parsed.ok
           THEN /\ rl' = Rl("checkRateLimit", key, FALSE, TRUE)
                /\ UNCHANGED <<session, recorded>>
           ELSE IF exceeded(attempts, maxAttempts)
           THEN /\ rl' = Rl("checkRateLimit", key, FALSE, FALSE)
                /\ UNCHANGED <<session, recorded>>
           ELSE /\ session' = [session EXCEPT
                                  ![key] = Item(ArrayText(Append(attempts, now)))]
                /\ recorded' = [recorded EXCEPT ![key] = Append(@, now)]
                /\ rl' = Rl("checkRateLimit", key, TRUE, FALSE)
    /\ UNCHANGED now
    /\ UNCHANGED cartVars

(* clearRateLimit: sessionStorage.removeItem *)
ClearRateLimit(key) ==
    /\ session[key].present
    /\ session' = [session EXCEPT ![key] = NoItem]
    /\ recorded' = [recorded EXCEPT ![key] = <<>>]
    /\ rl' = Rl("clearRateLimit", key, FALSE, FALSE)
    /\ UNCHANGED now
    /\ UNCHANGED cartVars

(* Date.now() advances *)
Tick ==
    /\ now < MaxTime
    /\ now' = now + 1
    /\ UNCHANGED <<session, recorded, rl>>
    /\ UNCHANGED cartVars

----------------------------------------------------------------------------
(* encryptData / decryptData.  A string is a sequence of UTF-16 code units,
   a byte string a sequence of numbers below 256. *)

MaxLen == 2

Bar == 124
SuffixGP == <<95, 71, 80>>
SaltPrefix == <<71, 80, 95>>

(* Characters of the texts: a, |, e-acute (two UTF-8 bytes), the euro sign
   (three UTF-8 bytes) and a lone high surrogate *)
TextChars == {97, 124, 233, 8364, 55296}

Texts == UNION {[1..n -> TextChars] : n \in 0..MaxLen}

(* Values of Date.now() at encoding time *)
SaltTimes == {0, 35, 36, 46655}

Reverse(str) == [i \in 1..Len(str) |-> str[Len(str) + 1 - i]]

(* One digit of Number.prototype.toString(36) *)
digit36(d) == IF d < 10 THEN 48 + d ELSE 97 + (d - 10)

(* Date.now().toString(36) *)
RECURSIVE toString36(_)
toString36(n) ==
    IF n < 36 THEN <<digit36(n)>>
    ELSE toString36(n \div 36) \o <<digit36(n % 36)>>

IsSurrogate(c) == c >= 55296 /\ c <= 57343

(* encodeURIComponent throws a URIError on a lone surrogate; the texts hold
   no surrogate pairs *)
utf8Throws(str) == \E i \in DOMAIN str : IsSurrogate(str[i])

utf8Char(c) ==
    IF c < 128 THEN <<c>>
    ELSE IF c < 2048 THEN <<192 + (c \div 64), 128 + (c % 64)>>
    ELSE <<224 + (c \div 4096), 128 + ((c \div 64) % 64), 128 + (c % 64)>>

(* unescape(encodeURIComponent(str)): the UTF-8 bytes of str *)
RECURSIVE utf8Encode(_)
utf8Encode(str) ==
    IF str = <<>> THEN <<>>
    ELSE utf8Char(Head(str)) \o utf8Encode(Tail(str))

IsCont(b) == b >= 128 /\ b < 192

(* The number of bytes of the UTF-8 sequence a lead byte opens, 0 when the
   byte opens none *)
utf8Width(b) ==
    IF b < 128 THEN 1
    ELSE IF b >= 194 /\ b < 224 THEN 2
    ELSE IF b >= 224 /\ b < 240 THEN 3
    ELSE 0

(* decodeURIComponent(escape(bytes)): ok = FALSE is the URIError thrown on
   bytes that are not UTF-8 *)
RECURSIVE utf8Decode(_)
utf8Decode(bytes) ==
    IF bytes = <<>> THEN [ok |-> TRUE, value |-> <<>>]
    ELSE LET w == utf8Width(bytes[1])
         IN  IF w = 0 \/ w > Len(bytes)
                \/ \E k \in 2..w : ~IsCont(bytes[k])
             THEN [ok |-> FALSE, value |-> <<>>]
             ELSE LET c == IF w = 1 THEN bytes[1]
                           ELSE IF w = 2
                           THEN (bytes[1] - 192) * 64 + (bytes[2] - 128)
                           ELSE (bytes[1] - 224) * 4096
                                + (bytes[2] - 128) * 64 + (bytes[3] - 128)
                      rest == utf8Decode(SubSeq(bytes, w + 1, Len(bytes)))
                  IN  IF (w = 3 /\ (c < 2048 \/ IsSurrogate(c))) \/ ~rest.ok
                      THEN [ok |-> FALSE, value |-> <<>>]
                      ELSE [ok |-> TRUE, value |-> <<c>> \o rest.value]

(* The character of a base64 digit (64 is the padding) *)
b64Char(v) ==
    IF v < 26 THEN 65 + v
    ELSE IF v < 52 THEN 97 + (v - 26)
    ELSE IF v < 62 THEN 48 + (v - 52)
    ELSE IF v = 62 THEN 43
    ELSE IF v = 63 THEN 47
    ELSE 61

(* The base64 digit of a character, 64 when it is none *)
b64Val(c) ==
    IF c >= 65 /\ c <= 90 THEN c - 65
    ELSE IF c >= 97 /\ c <= 122 THEN c - 97 + 26
    ELSE IF c >= 48 /\ c <= 57 THEN c - 48 + 52
    ELSE IF c = 43 THEN 62
    ELSE IF c = 47 THEN 63
    ELSE 64

(* btoa(bytes) *)
btoa(bytes) ==
    LET n == Len(bytes)
        byte(k) == IF k <= n THEN bytes[k] ELSE 0
        digit(i) ==
            LET g == (i - 1) \div 4
                j == (i - 1) % 4
                b1 == byte(3 * g + 1)
                b2 == byte(3 * g + 2)
                b3 == byte(3 * g + 3)
            IN  IF j = 0 THEN b1 \div 4
                ELSE IF j = 1 THEN (b1 % 4) * 16 + (b2 \div 16)
                ELSE IF j = 2
                THEN IF 3 * g + 2 > n THEN 64
                     ELSE (b2 % 16) * 4 + (b3 \div 64)
                ELSE IF 3 * g + 3 > n THEN 64 ELSE b3 % 64
    IN  [i \in 1..(4 * ((n + 2) \div 3)) |-> b64Char(digit(i))]

(* atob(str): ok = FALSE is the InvalidCharacterError *)
atob(str) ==
    LET len == Len(str)
        pads == IF len % 4 = 0 /\ len >= 2 /\ str[len] = 61
                THEN IF str[len - 1] = 61 THEN 2 ELSE 1
                ELSE 0
        m == len - pads
        val(k) == IF k <= m THEN b64Val(str[k]) ELSE 0
        nbytes == (m * 6) \div 8
        byte(i) ==
            LET g == (i - 1) \div 3
                j == (i - 1) % 3
                v1 == val(4 * g + 1)
                v2 == val(4 * g + 2)
                v3 == val(4 * g + 3)
                v4 == val(4 * g + 4)
            IN  IF j = 0 THEN v1 * 4 + (v2 \div 16)
                ELSE IF j = 1 THEN (v2 % 16) * 16 + (v3 \div 4)
                ELSE (v3 % 4) * 64 + v4
    IN  IF m % 4 = 1 \/ \E k \in 1..m : b64Val(str[k]) = 64
        THEN [ok |-> FALSE, value |-> <<>>]
        ELSE [ok |-> TRUE, value |-> [i \in 1..nbytes |-> byte(i)]]

(* encryptedData.replace(/_GP$/, '') *)
stripSuffix(str) ==
    IF Len(str) >= 3 /\ SubSeq(str, Len(str) - 2, Len(str)) = SuffixGP
    THEN SubSeq(str, 1, Len(str) - 3)
    ELSE str

(* decoded.split('|') *)
RECURSIVE split(_)
split(str) ==
    IF \A i \in DOMAIN str : str[i] # Bar THEN <<str>>
    ELSE LET k == CHOOSE i \in DOMAIN str :
                    str[i] = Bar /\ \A j \in 1..(i - 1) : str[j] # Bar
         IN  <<SubSeq(str, 1, k - 1)>> \o split(SubSeq(str, k + 1, Len(str)))

(* parts.join('|') *)
RECURSIVE join(_)
join(parts) ==
    IF parts = <<>> THEN <<>>
    ELSE IF Len(parts) = 1 THEN parts[1]
    ELSE parts[1] \o <<Bar>> \o join(Tail(parts))

(* encryptData(data) at time t *)
encryptData(data, t) ==
    LET salt == SaltPrefix \o toString36(t)
        combined == salt \o <<Bar>> \o data
    IN  IF utf8Throws(combined) THEN data
        ELSE Reverse(btoa(utf8Encode(combined))) \o SuffixGP

(* Variant: only the part after the first separator is returned
   (parts[1] instead of parts.slice(1).join('|')) *)
decryptDataSecondPart(encryptedData) ==
    LET reversed == Reverse(stripSuffix(encryptedData))
        bytes == atob(reversed)
    IN  IF ~bytes.ok THEN encryptedData
        ELSE LET decoded == utf8Decode(bytes.value)
             IN  IF ~decoded.ok THEN encryptedData
                 ELSE LET parts == split(decoded.value)
                      IN  IF Len(parts) > 1 THEN parts[2]
                          ELSE decoded.value

decryptData(encryptedData) ==
    LET reversed == Reverse(stripSuffix(encryptedData))
        bytes == atob(reversed)
    IN  IF ~bytes.ok THEN encryptedData
        ELSE LET decoded == utf8Decode(bytes.value)
             IN  IF ~decoded.ok THEN encryptedData
                 ELSE LET parts == split(decoded.value)
                      IN  IF Len(parts) > 1 THEN join(Tail(parts))
                          ELSE decoded.value

Crypt(phase, text, enc, dec) ==
    [phase |-> phase, text |-> text, enc |-> enc, dec |-> dec]

EncryptData ==
    /\ crypt.phase = "plain"
    /\ crypt' = Crypt("encrypted", crypt.text,
                      encryptData(crypt.text, now), <<>>)
    /\ UNCHANGED <<eq, csrfItem, csrfOp, auth, api, tabB>>
    /\ UNCHANGED <<cartState, rateState>>

DecryptData ==
    /\ crypt.phase = "encrypted"
    /\ crypt' = Crypt("decrypted", crypt.text, crypt.enc,
                      decryptData(crypt.enc))
    /\ UNCHANGED <<eq, csrfItem, csrfOp, auth, api, tabB>>
    /\ UNCHANGED <<cartState, rateState>>

----------------------------------------------------------------------------
(* constantTimeEqual *)

(* a ^ b and a | b on the bits of two code units *)
RECURSIVE BitXor(_, _)
BitXor(x, y) ==
    IF x = 0 /\ y = 0 THEN 0
    ELSE ((x + y) % 2) + 2 * BitXor(x \div 2, y \div 2)

RECURSIVE BitOr(_, _)
BitOr(x, y) ==
    IF x = 0 /\ y = 0 THEN 0
    ELSE (IF x % 2 = 1 \/ y % 2 = 1 THEN 1 ELSE 0)
         + 2 * BitOr(x \div 2, y \div 2)

(* The loop of constantTimeEqual from index i on, result being the value
   accumulated before it *)
RECURSIVE accumulate(_, _, _, _)
accumulate(a, b, i, result) ==
    IF i > Len(a) THEN result
    ELSE accumulate(a, b, i + 1, BitOr(result, BitXor(a[i], b[i])))

(* Variant: result = a.charCodeAt(i) ^ b.charCodeAt(i), the differences of
   earlier characters are overwritten *)
constantTimeEqualAssign(a, b) ==
    IF Len(a) # Len(b) THEN FALSE
    ELSE IF Len(a) = 0 THEN TRUE
    ELSE BitXor(a[Len(a)], b[Len(a)]) = 0

constantTimeEqual(a, b) ==
    IF Len(a) # Len(b) THEN FALSE
    ELSE accumulate(a, b, 1, 0) = 0

(* Characters of the compared strings: a, b and A *)
EqChars == {97, 98, 65}

EqStrings == UNION {[1..n -> EqChars] : n \in 0..MaxLen}

ConstantTimeEqual ==
    /\ ~eq.called
    /\ eq' = [eq EXCEPT !.called = TRUE,
                        !.ret = constantTimeEqual(eq.a, eq.b)]
    /\ UNCHANGED <<crypt, csrfItem, csrfOp, auth, api, tabB>>
    /\ UNCHANGED <<cartState, rateState>>

----------------------------------------------------------------------------
(* CSRF token.  csrfItem is the 'csrf_token' key of sessionStorage; the keys
   of the rate limiter are 'rate_limit_' + key, never this one. *)

NumTokens == 3

(* The values generateCSRFToken() can return: 64 hexadecimal digits, never
   the empty string *)
Tokens == 1..NumTokens

NoToken == [present |-> FALSE, token |-> 0]

(* What addCSRFToken is given: a FormData, a plain object, a string, null *)
DataKinds == {"FormData", "object", "string", "null"}

(* Variant: the token is generated and stored whether or not one is stored
   already *)
initializeCSRFTokenAlways(item, fresh) ==
    [item |-> [present |-> TRUE, token |-> fresh],
     ret |-> fresh, created |-> TRUE]

(* initializeCSRFToken(), fresh being what generateCSRFToken() would return *)
initializeCSRFToken(item, fresh) ==
    IF ~item.present
    THEN [item |-> [present |-> TRUE, token |-> fresh],
          ret |-> fresh, created |-> TRUE]
    ELSE [item |-> item, ret |-> item.token, created |-> FALSE]

(* sessionStorage.getItem('csrf_token') || initializeCSRFToken() *)
getCSRFToken(item, fresh) ==
    IF item.present
    THEN [item |-> item, ret |-> item.token, created |-> FALSE]
    ELSE initializeCSRFToken(item, fresh)

CsrfOp(op, kind, token, created, attached, threw) ==
    [op |-> op, kind |-> kind, token |-> token, created |-> created,
     attached |-> attached, threw |-> threw]

InitializeCSRFToken ==
    /\ \E fresh \in Tokens :
          LET r == initializeCSRFToken(csrfItem, fresh)
          IN  /\ csrfItem' = r.item
              /\ csrfOp' = CsrfOp("initializeCSRFToken", "none", r.ret,
                                  r.created, FALSE, FALSE)
    /\ UNCHANGED <<crypt, eq, auth, api, tabB>>
    /\ UNCHANGED <<cartState, rateState>>

GetCSRFToken ==
    /\ \E fresh \in Tokens :
          LET r == getCSRFToken(csrfItem, fresh)
          IN  /\ csrfItem' = r.item
              /\ csrfOp' = CsrfOp("getCSRFToken", "none", r.ret,
                                  r.created, FALSE, FALSE)
    /\ UNCHANGED <<crypt, eq, auth, api, tabB>>
    /\ UNCHANGED <<cartState, rateState>>

(* addCSRFToken(data): typeof null is 'object', and the assignment to a
   property of null throws a TypeError after the token was obtained *)
AddCSRFToken(kind) ==
    /\ \E fresh \in Tokens :
          LET r == getCSRFToken(csrfItem, fresh)
          IN  /\ csrfItem' = r.item
              /\ csrfOp' = CsrfOp("addCSRFToken", kind, r.ret, r.created,
                                  kind \in {"FormData", "object"},
                                  kind = "null")
    /\ UNCHANGED <<crypt, eq, auth, api, tabB>>
    /\ UNCHANGED <<cartState, rateState>>

----------------------------------------------------------------------------
(* Admin requests of APIService.  auth is the authToken and username keys of
   localStorage, api the last call with the page location after it. *)

AuthTokens == {"tokA", "tokB"}
Usernames == {"admin", "staff"}

(* HTTP status of the response *)
Statuses == {200, 401, 403, 500}

(* The methods that test response.status === 401 *)
ListMethods == {"getAdminCategories", "getAdminProducts", "getAdminOrders"}

(* The methods that only test response.ok *)
WriteMethods ==
    {"createCategory", "updateCategory", "deleteCategory",
     "createProduct", "updateProduct", "deleteProduct", "updateOrder"}

AdminMethods == ListMethods \cup WriteMethods

NoCredential == [present |-> FALSE, value |-> "none"]

Credential(v) == [present |-> TRUE, value |-> v]

(* response.ok *)
ok(code) == code >= 200 /\ code <= 299

Api(op, code, handled, threw, location) ==
    [op |-> op, status |-> code, handled |-> handled, threw |-> threw,
     location |-> location]

clearAuthToken == [authToken |-> NoCredential, username |-> NoCredential]

SaveAuthToken(token, username) ==
    /\ auth' = [authToken |-> Credential(token),
                username |-> Credential(username)]
    /\ api' = Api("saveAuthToken", 0, FALSE, FALSE, api.location)
    /\ UNCHANGED <<crypt, eq, csrfItem, csrfOp, tabB>>
    /\ UNCHANGED <<cartState, rateState>>

(* getAdminCategories, getAdminProducts, getAdminOrders *)
AdminListRequest(method, code) ==
    /\ IF ~ok(code) /\ code = 401
       THEN /\ auth' = clearAuthToken
            /\ api' = Api(method, code, TRUE, TRUE, "login.html")
       ELSE /\ auth' = auth
            /\ api' = Api(method, code, FALSE, ~ok(code), api.location)
    /\ UNCHANGED <<crypt, eq, csrfItem, csrfOp, tabB>>
    /\ UNCHANGED <<cartState, rateState>>

(* create, update and delete of categories and products, updateOrder *)
AdminWriteRequest(method, code) ==
    /\ auth' = auth
    /\ api' = Api(method, code, FALSE, ~ok(code), api.location)
    /\ UNCHANGED <<crypt, eq, csrfItem, csrfOp, tabB>>
    /\ UNCHANGED <<cartState, rateState>>

----------------------------------------------------------------------------
(* A second CartManager instance (another tab) over the same localStorage.
   tabB is its status and its this.cart; its calls are recorded in lastOp
   under names ending in B. *)

TabB(st, c) == [status |-> st, cart |-> c]

(* new CartManager() in the second tab *)
ConstructB ==
    /\ LET r == loadCart(storage)
       IN  IF r.ok
           THEN tabB' = TabB("ready", r.value)
           ELSE tabB' = TabB("threw", <<>>)
    /\ lastOp' = Op("constructB", NoProduct, 0, 0, FALSE, 0)
    /\ UNCHANGED <<storage, cart, status>>
    /\ UNCHANGED <<crypt, eq, csrfItem, csrfOp, auth, api>>
    /\ UNCHANGED rateState

(* Variant: the second tab reloads the stored cart before it adds, so the
   lines the first tab wrote are merged in *)
AddItemBReloads(product, quantity) ==
    /\ tabB.status = "ready"
    /\ loadCart(storage).ok
    /\ LET c == addItem(loadCart(storage).value, product, quantity)
       IN  /\ QtyInRange(c)
           /\ tabB' = TabB("ready", c)
           /\ storage' = saveCart(c)
    /\ lastOp' = Op("addItemB", product, product.id, quantity,
                    find(tabB.cart, product.id) # 0, 0)
    /\ UNCHANGED <<cart, status>>
    /\ UNCHANGED <<crypt, eq, csrfItem, csrfOp, auth, api>>
    /\ UNCHANGED rateState

AddItemB(product, quantity) ==
    /\ tabB.status = "ready"
    /\ LET c == addItem(tabB.cart, product, quantity)
       IN  /\ QtyInRange(c)
           /\ tabB' = TabB("ready", c)
           /\ storage' = saveCart(c)
    /\ lastOp' = Op("addItemB", product, product.id, quantity,
                    find(tabB.cart, product.id) # 0, 0)
    /\ UNCHANGED <<cart, status>>
    /\ UNCHANGED <<crypt, eq, csrfItem, csrfOp, auth, api>>
    /\ UNCHANGED rateState

RemoveItemB(productId) ==
    /\ tabB.status = "ready"
    /\ tabB' = TabB("ready", removeItem(tabB.cart, productId))
    /\ storage' = saveCart(removeItem(tabB.cart, productId))
    /\ lastOp' = Op("removeItemB", NoProduct, productId, 0,
                    find(tabB.cart, productId) # 0, 0)
    /\ UNCHANGED <<cart, status>>
    /\ UNCHANGED <<crypt, eq, csrfItem, csrfOp, auth, api>>
    /\ UNCHANGED rateState

UpdateQuantityB(productId, change) ==
    /\ tabB.status = "ready"
    /\ LET c == updateQuantity(tabB.cart, productId, change)
       IN  /\ QtyInRange(c)
           /\ tabB' = TabB("ready", c)
           /\ storage' = IF find(tabB.cart, productId) # 0 THEN saveCart(c)
                         ELSE storage
    /\ lastOp' = Op("updateQuantityB", NoProduct, productId, change,
                    find(tabB.cart, productId) # 0, 0)
    /\ UNCHANGED <<cart, status>>
    /\ UNCHANGED <<crypt, eq, csrfItem, csrfOp, auth, api>>
    /\ UNCHANGED rateState

ClearCartB ==
    /\ tabB.status = "ready"
    /\ tabB' = TabB("ready", <<>>)
    /\ storage' = saveCart(<<>>)
    /\ lastOp' = Op("clearCartB", NoProduct, 0, 0, FALSE, 0)
    /\ UNCHANGED <<cart, status>>
    /\ UNCHANGED <<crypt, eq, csrfItem, csrfOp, auth, api>>
    /\ UNCHANGED rateState

(* The components below before their first call *)
CryptIdle == crypt = Crypt("idle", <<>>, <<>>, <<>>)

EqIdle == eq = [a |-> <<>>, b |-> <<>>, called |-> FALSE, ret |-> FALSE]

CsrfIdle ==
    /\ csrfItem = NoToken
    /\ csrfOp = CsrfOp("none", "none", 0, FALSE, FALSE, FALSE)

AuthIdle ==
    /\ auth = clearAuthToken
    /\ api = Api("none", 0, FALSE, FALSE, "admin.html")

TabsIdle == tabB = TabB("unconstructed", <<>>)

OtherIdle == CryptIdle /\ EqIdle /\ CsrfIdle /\ AuthIdle /\ TabsIdle

RateInit ==
    /\ now = 0
    /\ session = [k \in Keys |-> NoItem]
    /\ recorded = [k \in Keys |-> <<>>]
    /\ rl = Rl("none", "login", FALSE, FALSE)

CartInit ==
    /\ storage \in InitialItems
    /\ cart = <<>>
    /\ status = "unconstructed"
    /\ lastOp = Op("none", NoProduct, 0, 0, FALSE, 0)

Init == CartInit /\ RateInit /\ OtherIdle

Next ==
    \/ Construct
    \/ \E p \in Products, q \in Quantities : AddItem(p, q)
    \/ \E id \in ProductIds : RemoveItem(id)
    \/ \E id \in ProductIds, d \in Changes : UpdateQuantity(id, d)
    \/ ClearCart
    \/ GetTotal
    \/ GetItemCount

Spec == Init /\ [][Next]_vars

(* getTotal() applied to the carts a stored snapshot can hold: lines with
   and without a unitPrice key *)
StoredQuantities == {1, 2, 3}

StoredLines ==
    {[product |-> p, quantity |-> q, unitPrice |-> u] :
        p \in Products, q \in StoredQuantities, u \in {5, 10}}
    \cup {[product |-> p, quantity |-> q] :
            p \in Products, q \in StoredQuantities}

StoredCarts ==
    {<<>>} \cup {<<l>> : l \in StoredLines}
           \cup {<<l, m>> : l \in StoredLines, m \in StoredLines}

TotalInit ==
    /\ cart \in StoredCarts
    /\ storage = saveCart(cart)
    /\ status = "ready"
    /\ lastOp = Op("construct", NoProduct, 0, 0, FALSE, 0)
    /\ RateInit
    /\ OtherIdle

SpecTotal == TotalInit /\ [][GetTotal]_vars

(* The rate limiter alone, over a cart manager that is never constructed *)
RateStart ==
    /\ RateInit
    /\ storage = NoItem
    /\ cart = <<>>
    /\ status = "unconstructed"
    /\ lastOp = Op("none", NoProduct, 0, 0, FALSE, 0)
    /\ OtherIdle

RateNext ==
    \/ \E k \in Keys : CheckRateLimit(k, MaxAttempts, WindowMs)
    \/ \E k \in Keys : ClearRateLimit(k)
    \/ Tick

SpecRate == RateStart /\ [][RateNext]_vars

(* The cart manager and the rate limiter before their first call *)
CartIdle ==
    /\ storage = NoItem
    /\ cart = <<>>
    /\ status = "unconstructed"
    /\ lastOp = Op("none", NoProduct, 0, 0, FALSE, 0)

RateIdle ==
    /\ session = [k \in Keys |-> NoItem]
    /\ recorded = [k \in Keys |-> <<>>]
    /\ rl = Rl("none", "login", FALSE, FALSE)

(* encryptData then decryptData over every text and every salt time *)
CryptInit ==
    /\ crypt \in {Crypt("plain", t, <<>>, <<>>) : t \in Texts}
    /\ now \in SaltTimes
    /\ CartIdle /\ RateIdle
    /\ EqIdle /\ CsrfIdle /\ AuthIdle /\ TabsIdle

CryptNext == EncryptData \/ DecryptData

SpecCrypt == CryptInit /\ [][CryptNext]_vars

(* constantTimeEqual over every pair of strings *)
EqualInit ==
    /\ eq \in {[a |-> x, b |-> y, called |-> FALSE, ret |-> FALSE] :
                  x \in EqStrings, y \in EqStrings}
    /\ now = 0
    /\ CartIdle /\ RateIdle
    /\ CryptIdle /\ CsrfIdle /\ AuthIdle /\ TabsIdle

SpecEqual == EqualInit /\ [][ConstantTimeEqual]_vars

(* The CSRF token functions interleaved with the other users of
   sessionStorage, at one instant *)
CsrfInit ==
    /\ now = 0
    /\ CartIdle /\ RateIdle
    /\ CryptIdle /\ EqIdle /\ CsrfIdle /\ AuthIdle /\ TabsIdle

CsrfNext ==
    \/ InitializeCSRFToken
    \/ GetCSRFToken
    \/ \E kind \in DataKinds : AddCSRFToken(kind)
    \/ \E k \in Keys : CheckRateLimit(k, MaxAttempts, WindowMs)
    \/ \E k \in Keys : ClearRateLimit(k)

SpecCsrf == CsrfInit /\ [][CsrfNext]_vars

(* The admin requests of a signed-in page, every response status *)
ApiInit ==
    /\ now = 0
    /\ CartIdle /\ RateIdle
    /\ CryptIdle /\ EqIdle /\ CsrfIdle /\ AuthIdle /\ TabsIdle

ApiNext ==
    \/ \E t \in AuthTokens, u \in Usernames : SaveAuthToken(t, u)
    \/ \E m \in ListMethods, c \in Statuses : AdminListRequest(m, c)
    \/ \E m \in WriteMethods, c \in Statuses : AdminWriteRequest(m, c)

SpecApi == ApiInit /\ [][ApiNext]_vars

(* checkRateLimit over stored values of every shape: no value, the empty
   string, a truncated array, an object, an array of timestamps *)
StoredValues ==
    {NoItem, Item(<<>>), Item(<<Sym("[")>>), Item(<<Sym("{"), Sym("}")>>),
     Item(ArrayText(<<0>>))}

StoredInit ==
    /\ now = 0
    /\ session \in [Keys -> StoredValues]
    /\ recorded = [k \in Keys |->
                      IF storedAttempts(session[k]).ok
                      THEN storedAttempts(session[k]).value
                      ELSE <<>>]
    /\ rl = Rl("none", "login", FALSE, FALSE)
    /\ CartIdle
    /\ OtherIdle

StoredNext ==
    \/ \E k \in Keys : CheckRateLimit(k, MaxAttempts, WindowMs)
    \/ \E k \in Keys : ClearRateLimit(k)

SpecStored == StoredInit /\ [][StoredNext]_vars

(* Two tabs over one localStorage, their calls interleaved in any order *)
TabProducts == {[id |-> 1, price |-> 10], [id |-> 2]}

TabIds == {p.id : p \in TabProducts}

TabChanges == {0 - 1, 1}

TabsInit ==
    /\ storage \in {NoItem} \cup {Item(JSONstringify(c)) : c \in SavedCarts}
    /\ cart = <<>>
    /\ status = "unconstructed"
    /\ lastOp = Op("none", NoProduct, 0, 0, FALSE, 0)
    /\ RateInit
    /\ OtherIdle

TabsNext ==
    \/ Construct
    \/ \E p \in TabProducts : AddItem(p, 1)
    \/ \E id \in TabIds : RemoveItem(id)
    \/ \E id \in TabIds, d \in TabChanges : UpdateQuantity(id, d)
    \/ ClearCart
    \/ ConstructB
    \/ \E p \in TabProducts : AddItemB(p, 1)
    \/ \E id \in TabIds : RemoveItemB(id)
    \/ \E id \in TabIds, d \in TabChanges : UpdateQuantityB(id, d)
    \/ ClearCartB

SpecTabs == TabsInit /\ [][TabsNext]_vars

----------------------------------------------------------------------------
(* Properties of the cart manager *)

Mutating == {"addItem", "removeItem", "updateQuantity", "clearCart"}

HasId(c, id) == \E i \in DOMAIN c : c[i].product.id = id

(* The stored text has a line for the identifier *)
TextHasId(item, id) ==
    \E i \in 1..(Len(item.text) - 1) :
        item.text[i].t = "id" /\ item.text[i + 1].n = id

(* The quantities the stored text gives for the identifier: those of the
   first quantity key after an id key with that identifier *)
TextQuantitiesOf(item, id) ==
    LET t == item.text
    IN  { t[j + 1].n : j \in
            { j \in 1..(Len(t) - 1) :
                /\ t[j].t = "quantity"
                /\ \E i \in 1..(j - 1) :
                      /\ t[i].t = "id" /\ t[i + 1].n = id
                      /\ \A k \in i..(j - 1) : t[k].t # "quantity" } }

(* C1 (as stated): after every completed addItem, removeItem, updateQuantity
   or clearCart the string stored under the cart key is the JSON text of the
   in-memory cart. *)
C1_SnapshotEqualsCart ==
    (status = "ready" /\ lastOp.op \in Mutating)
        => storage = Item(JSONstringify(cart))

(* C1 (amended): after every completed addItem, removeItem or clearCart, and
   after every updateQuantity of an identifier that is in the cart, the
   string stored under the cart key is the JSON text of the in-memory cart;
   updateQuantity of an absent identifier writes nothing. *)
C1_WrittenSnapshotEqualsCart ==
    (/\ status = "ready"
     /\ \/ lastOp.op \in {"addItem", "removeItem", "clearCart"}
        \/ lastOp.op = "updateQuantity" /\ lastOp.found)
        => storage = Item(JSONstringify(cart))

C1_Witness ==
    /\ status = "ready"
    /\ lastOp.op = "updateQuantity"
    /\ lastOp.found
    /\ Len(cart) = 2
    /\ storage = Item(JSONstringify(cart))

UniqueIds(c) ==
    \A i, j \in DOMAIN c : i # j => c[i].product.id # c[j].product.id

(* C2: no two cart lines have the same product identifier after any step, and
   an addItem of a product already in the cart adds no line but increments
   the quantity of the line it found. *)
C2_UniqueProductIds ==
    [][ /\ UniqueIds(cart')
        /\ (lastOp'.op = "addItem" /\ lastOp'.found)
              => /\ Len(cart') = Len(cart)
                 /\ LET i == find(cart, lastOp'.id)
                    IN  cart'[i].quantity = cart[i].quantity + lastOp'.qty
      ]_vars

C2_Witness ==
    /\ lastOp.op = "addItem"
    /\ lastOp.found
    /\ Len(cart) = 3
    /\ UniqueIds(cart)

(* Every quantity written in a stored text is greater than 0 *)
TextQuantitiesPositive(item) ==
    \A i \in 1..(Len(item.text) - 1) :
        item.text[i].t = "quantity" => item.text[i + 1].n > 0

(* C3 (as stated): with arbitrary integer quantities, every line of the
   persisted cart has quantity greater than 0 in every reachable state. *)
C3_PersistedQuantitiesPositive == TextQuantitiesPositive(storage)

(* C3 (amended): every step other than an addItem with a quantity <= 0 keeps
   all persisted quantities greater than 0; so, from an empty cart, any
   sequence of addItem with quantity >= 1, removeItem, updateQuantity with
   any integer change, and clearCart leaves only persisted lines of
   quantity greater than 0. *)
C3_PositiveUnlessNonPositiveAdd ==
    [][ (/\ TextQuantitiesPositive(storage)
         /\ ~(lastOp'.op = "addItem" /\ lastOp'.qty <= 0))
            => TextQuantitiesPositive(storage')
      ]_vars

C3_Witness ==
    /\ lastOp.op = "updateQuantity"
    /\ lastOp.found
    /\ lastOp.qty < 0
    /\ TextHasId(storage, lastOp.id)
    /\ TextQuantitiesPositive(storage)

(* The price a call of addItem passes, 0 when the product has none *)
PassedPrice(product) ==
    IF "price" \in DOMAIN product THEN product.price ELSE 0

LinesOf(c, id) == {i \in DOMAIN c : c[i].product.id = id}

(* C4: two consecutive addItem calls with the same identifier, the first on a
   cart without it, leave exactly one line for it, of quantity q1 + q2 and
   of the unit price passed in the first call. *)
C4_MergeKeepsFirstPrice ==
    [][ (/\ lastOp.op = "addItem" /\ ~lastOp.found
         /\ lastOp'.op = "addItem" /\ lastOp'.id = lastOp.id)
            => /\ Cardinality(LinesOf(cart', lastOp.id)) = 1
               /\ \A i \in LinesOf(cart', lastOp.id) :
                     /\ cart'[i].quantity = lastOp.qty + lastOp'.qty
                     /\ cart'[i].unitPrice = PassedPrice(lastOp.product)
      ]_vars

C4_Witness ==
    /\ lastOp.op = "addItem"
    /\ lastOp.found
    /\ lastOp.product = [id |-> 1, price |-> 5]
    /\ \E i \in DOMAIN cart :
          /\ cart[i].product.id = 1
          /\ cart[i].unitPrice = 10
          /\ cart[i].quantity = 1 + lastOp.qty

(* C5: updateQuantity(id, delta) of an identifier in the cart removes the
   line from the cart and from the persisted snapshot when quantity + delta
   is <= 0, and otherwise keeps it with quantity + delta. *)
C5_UpdateRemovesOrIncrements ==
    [][ (lastOp'.op = "updateQuantity" /\ lastOp'.found)
            => LET id == lastOp'.id
                   new == cart[find(cart, id)].quantity + lastOp'.qty
               IN  IF new <= 0
                   THEN ~HasId(cart', id) /\ ~TextHasId(storage', id)
                   ELSE /\ \E i \in DOMAIN cart' :
                             /\ cart'[i].product.id = id
                             /\ cart'[i].quantity = new
                        /\ TextQuantitiesOf(storage', id) = {new}
      ]_vars

C5_Witness ==
    /\ lastOp.op = "updateQuantity"
    /\ lastOp.found
    /\ ~HasId(cart, lastOp.id)
    /\ ~TextHasId(storage, lastOp.id)
    /\ cart # <<>>

RECURSIVE QuantitySum(_, _)
QuantitySum(c, S) ==
    IF S = {} THEN 0
    ELSE LET i == CHOOSE x \in S : TRUE
         IN  c[i].quantity + QuantitySum(c, S \ {i})

(* C6: the empty cart counts 0 items; each addItem of an identifier not in
   the cart raises getItemCount() by the quantity passed and the number of
   lines by one, and getItemCount() returns the sum of the line quantities.
   So after addItem calls with pairwise distinct identifiers on an empty
   cart the count is the sum of the quantities passed and the length is the
   number of identifiers. *)
C6_DistinctAddsCount ==
    [][ /\ (cart' = <<>> => getItemCount(cart') = 0)
        /\ (lastOp'.op = "addItem" /\ ~lastOp'.found)
              => /\ getItemCount(cart') = getItemCount(cart) + lastOp'.qty
                 /\ Len(cart') = Len(cart) + 1
                 /\ Cardinality({cart'[i].product.id : i \in DOMAIN cart'})
                       = Len(cart')
        /\ lastOp'.op = "getItemCount"
              => lastOp'.ret = QuantitySum(cart, DOMAIN cart)
      ]_vars

C6_Witness ==
    /\ lastOp.op = "getItemCount"
    /\ Len(cart) = 3
    /\ cart[1].quantity = 1 /\ cart[2].quantity = 2 /\ cart[3].quantity = 2
    /\ lastOp.ret = 5

RECURSIVE LineSum(_, _)
LineSum(c, S) ==
    IF S = {} THEN 0
    ELSE LET i == CHOOSE x \in S : TRUE
             u == IF "unitPrice" \in DOMAIN c[i] THEN c[i].unitPrice ELSE 0
         IN  u * c[i].quantity + LineSum(c, S \ {i})

ExampleCart(c) ==
    /\ Len(c) = 2
    /\ "unitPrice" \in DOMAIN c[1]
    /\ c[1].unitPrice = 10 /\ c[1].quantity = 2
    /\ "unitPrice" \in DOMAIN c[2]
    /\ c[2].unitPrice = 5 /\ c[2].quantity = 3

(* C7: getTotal() returns the sum of unitPrice * quantity over the lines, a
   missing unitPrice counting 0 (35 for lines (10,2) and (5,3)), and changes
   neither the in-memory cart nor the persisted snapshot. *)
C7_TotalIsSumAndPure ==
    [][ lastOp'.op = "getTotal"
            => /\ lastOp'.ret = LineSum(cart, DOMAIN cart)
               /\ (ExampleCart(cart) => lastOp'.ret = 35)
               /\ cart' = cart
               /\ storage' = storage
      ]_vars

C7_Witness ==
    /\ lastOp.op = "getTotal"
    /\ ExampleCart(cart)
    /\ lastOp.ret = 35

(* C8: a CartManager constructed right after a mutating call of the previous
   instance loads a cart equal to that instance's in-memory cart, the empty
   cart after clearCart(). *)
C8_FreshInstanceLoadsSameCart ==
    [][ (/\ status = "ready"
         /\ lastOp.op \in Mutating
         /\ lastOp'.op = "construct")
            => /\ status' = "ready"
               /\ cart' = cart
               /\ (lastOp.op = "clearCart" => cart' = <<>>)
      ]_vars

C8_Witness ==
    /\ lastOp.op = "construct"
    /\ status = "ready"
    /\ storage \notin InitialItems
    /\ Len(cart) = 2

(* C9: constructing a CartManager yields an empty cart, and raises nothing,
   both when the cart key is unset and when the stored text does not
   parse. *)
C9_LoadDegradesToEmpty ==
    (/\ lastOp.op = "construct"
     /\ (~storage.present \/ ~JSONparse(storage.text).ok))
        => (status = "ready" /\ cart = <<>>)

(* The product identifiers of the lines, in the order of the lines *)
Ids(c) == [i \in 1..Len(c) |-> c[i].product.id]

(* C18: cart lines stay in insertion order: addItem of a new identifier
   appends its line at the end, addItem of an identifier in the cart and
   updateQuantity with a positive result keep the order of the lines, and a
   removal (removeItem, or updateQuantity with a result of 0 or less) deletes
   the line and leaves the others as they were, in the same order. *)
C18_InsertionOrderKept ==
    [][ /\ (lastOp'.op = "addItem" /\ ~lastOp'.found)
              => /\ Len(cart') = Len(cart) + 1
                 /\ SubSeq(cart', 1, Len(cart)) = cart
                 /\ cart'[Len(cart')].product.id = lastOp'.id
        /\ (lastOp'.op = "addItem" /\ lastOp'.found)
              => Ids(cart') = Ids(cart)
        /\ (lastOp'.op = "updateQuantity" /\ lastOp'.found)
              => IF cart[find(cart, lastOp'.id)].quantity + lastOp'.qty > 0
                 THEN Ids(cart') = Ids(cart)
                 ELSE cart' = SelectSeq(cart,
                         LAMBDA item : item.product.id # lastOp'.id)
        /\ lastOp'.op = "removeItem"
              => cart' = SelectSeq(cart,
                    LAMBDA item : item.product.id # lastOp'.id)
      ]_vars

(* Product 3 was added before product 1, and a line between them removed *)
C18_Witness ==
    /\ status = "ready"
    /\ lastOp.op = "removeItem"
    /\ lastOp.found
    /\ lastOp.id = 2
    /\ Ids(cart) = <<3, 1>>

(* C19: removeItem and updateQuantity of an identifier that is not in the
   cart leave the lines of the cart as they were; removeItem still writes
   the JSON text of the unchanged cart under the cart key, updateQuantity
   leaves the stored item untouched. *)
C19_AbsentIdLeavesCart ==
    [][ /\ (lastOp'.op = "removeItem" /\ ~lastOp'.found)
              => /\ cart' = cart
                 /\ storage' = Item(JSONstringify(cart))
        /\ (lastOp'.op = "updateQuantity" /\ ~lastOp'.found)
              => /\ cart' = cart
                 /\ storage' = storage
      ]_vars

(* updateQuantity of an absent identifier on a loaded cart wrote nothing:
   the cart key is still unset *)
C19_Witness ==
    /\ status = "ready"
    /\ lastOp.op = "updateQuantity"
    /\ ~lastOp.found
    /\ ~storage.present
    /\ cart = <<>>

----------------------------------------------------------------------------
(* Properties of the rate limiter *)

RecentCount(k, t, windowMs) ==
    Cardinality({i \in DOMAIN recorded[k] : t - recorded[k][i] < windowMs})

(* C10: under a non-decreasing clock a checkRateLimit call returns true
   exactly when fewer than maxAttempts of the timestamps recorded before it
   for that key lie within windowMs of now. *)
C10_AdmitsIffWindowNotFull ==
    [][ (rl'.op = "checkRateLimit" /\ now' = now)
            => /\ ~rl'.threw
               /\ rl'.ret <=>
                    (RecentCount(rl'.key, now, WindowMs) < MaxAttempts)
      ]_vars

(* MaxAttempts admissions at one instant, then one more once the window has
   passed *)
C10_Witness ==
    /\ rl.op = "checkRateLimit"
    /\ rl.ret
    /\ Len(recorded[rl.key]) = MaxAttempts + 1
    /\ \A i \in 1..MaxAttempts : recorded[rl.key][i] = recorded[rl.key][1]
    /\ recorded[rl.key][MaxAttempts + 1] = now
    /\ now - recorded[rl.key][1] >= WindowMs

(* The number of timestamps in a stored text *)
StoredCount(item) ==
    Cardinality({i \in 1..Len(item.text) : item.text[i].t = "num"})

(* C11: a checkRateLimit call that returns false leaves the stored text of
   every key as it was; the stored sequence of a key grows only in a call for
   that key that returns true; and it never holds more than maxAttempts
   timestamps. *)
C11_RejectedNotRecorded ==
    [][ /\ (rl'.op = "checkRateLimit" /\ now' = now /\ ~rl'.ret)
              => session' = session
        /\ \A k \in Keys :
              /\ StoredCount(session'[k]) > StoredCount(session[k])
                    => (rl'.op = "checkRateLimit" /\ rl'.key = k /\ rl'.ret)
              /\ StoredCount(session'[k]) <= MaxAttempts
      ]_vars

C11_Witness ==
    /\ rl.op = "checkRateLimit"
    /\ ~rl.ret
    /\ ~rl.threw
    /\ StoredCount(session[rl.key]) = MaxAttempts
    /\ Len(recorded[rl.key]) = MaxAttempts

(* C16: a checkRateLimit call for a key whose stored value is absent or does
   not parse as an array of timestamps raises nothing, returns true (the
   limit being positive) and stores the current attempt alone. *)
C16_AbsentOrMalformedIsEmpty ==
    [][ \A k \in Keys :
          (/\ rl'.op = "checkRateLimit"
           /\ rl'.key = k
           /\ now' = now
           /\ (~session[k].present \/ ~ParseArray(session[k].text).ok))
              => /\ ~rl'.threw
                 /\ rl'.ret
                 /\ session'[k] = Item(ArrayText(<<now>>))
      ]_vars

----------------------------------------------------------------------------
(* Properties of the storage encoding *)

(* C12: decryptData(encryptData(text)) is text, for every text and every
   salt time, the empty text and texts holding the separator '|' included. *)
C12_DecryptInvertsEncrypt ==
    crypt.phase = "decrypted" => crypt.dec = crypt.text

(* A text with two separators went through the encoding, not through the
   fallback that returns the data as it came *)
C12_Witness ==
    /\ crypt.phase = "decrypted"
    /\ crypt.text = <<Bar, Bar>>
    /\ crypt.enc # crypt.text
    /\ Len(crypt.enc) > 3
    /\ crypt.dec = crypt.text

----------------------------------------------------------------------------
(* Properties of constantTimeEqual *)

(* C13: constantTimeEqual(a, b) returns true exactly when a and b are the
   same string: false for different lengths and for equal lengths with a
   differing character, true for equal strings. *)
C13_TrueIffSameString ==
    eq.called => (eq.ret <=> eq.a = eq.b)

(* Equal lengths, the first characters differ and the last ones agree *)
C13_Witness ==
    /\ eq.called
    /\ Len(eq.a) = 2 /\ Len(eq.b) = 2
    /\ eq.a[1] # eq.b[1]
    /\ eq.a[2] = eq.b[2]
    /\ ~eq.ret

----------------------------------------------------------------------------
(* Properties of the CSRF token *)

(* C14: a call to initializeCSRFToken, getCSRFToken or addCSRFToken leaves a
   token stored and obtains exactly the stored token, and once the
   'csrf_token' key is set no step of the module changes or removes it: every
   later call obtains the token the first call created. *)
C14_TokenCreatedOnceThenStable ==
    [][ /\ csrfItem.present => csrfItem' = csrfItem
        /\ csrfOp'.op # "none"
              => /\ csrfItem'.present
                 /\ csrfOp'.token = csrfItem'.token
                 /\ csrfOp' # csrfOp
                       => (csrfOp'.created <=> ~csrfItem.present)
      ]_vars

(* addCSRFToken attaches the token an earlier call created, after the rate
   limiter removed one of its own keys *)
C14_Witness ==
    /\ csrfOp.op = "addCSRFToken"
    /\ csrfOp.kind = "object"
    /\ csrfOp.attached
    /\ ~csrfOp.created
    /\ csrfOp.token = csrfItem.token
    /\ rl.op = "clearRateLimit"

----------------------------------------------------------------------------
(* Properties of the admin requests *)

(* C15: after any admin request that received a 401 response the authToken
   and username keys are cleared, the page location is the login page, and
   the error was thrown to the caller. *)
C15_UnauthorizedClearsAndRedirects ==
    (api.op \in AdminMethods /\ api.status = 401)
        => /\ ~auth.authToken.present
           /\ ~auth.username.present
           /\ api.location = "login.html"
           /\ api.threw

----------------------------------------------------------------------------
(* Properties of two tabs over one storage *)

MutatingB == {"addItemB", "removeItemB", "updateQuantityB", "clearCartB"}

(* The second tab's call wrote the snapshot *)
WroteB(o) ==
    \/ o.op \in {"addItemB", "removeItemB", "clearCartB"}
    \/ o.op = "updateQuantityB" /\ o.found

(* C17 (as stated): when the second tab mutates right after the first tab
   mutated, the stored snapshot is the JSON text of the second tab's cart
   and is no longer that of the first tab's cart. *)
C17_LastWriteWins ==
    [][ (/\ status = "ready" /\ tabB.status = "ready"
         /\ lastOp.op \in Mutating
         /\ lastOp'.op \in MutatingB)
            => /\ storage' = Item(JSONstringify(tabB'.cart))
               /\ storage' # Item(JSONstringify(cart'))
      ]_vars

(* C17 (amended): when the second tab mutates right after the first tab
   mutated and its call writes (every mutation but updateQuantity of an
   identifier absent from its cart, which leaves the storage as the first
   tab wrote it), the stored snapshot is the JSON text of the second tab's
   cart alone: that cart holds no line it did not hold before besides the
   product of the call, the first tab's cart stays as it was in memory, and
   it equals the snapshot only if it equals the second tab's cart. *)
C17_LastWriterSnapshotNoMerge ==
    [][ (/\ status = "ready" /\ tabB.status = "ready"
         /\ lastOp.op \in Mutating
         /\ lastOp'.op \in MutatingB)
            => /\ cart' = cart
               /\ \A id \in ProductIds :
                     HasId(tabB'.cart, id)
                        => (HasId(tabB.cart, id)
                            \/ (lastOp'.op = "addItemB" /\ lastOp'.id = id))
               /\ IF WroteB(lastOp')
                  THEN /\ storage' = Item(JSONstringify(tabB'.cart))
                       /\ \A id \in ProductIds :
                             TextHasId(storage', id) <=> HasId(tabB'.cart, id)
                       /\ (storage' = Item(JSONstringify(cart')))
                             <=> (cart' = tabB'.cart)
                  ELSE storage' = storage /\ tabB' = tabB
      ]_vars

(* The first tab added product 1 after the second tab loaded; the second
   tab then added product 2, and the snapshot holds product 2 only *)
C17_Witness ==
    /\ status = "ready" /\ tabB.status = "ready"
    /\ lastOp.op = "addItemB"
    /\ HasId(cart, 1) /\ ~HasId(tabB.cart, 1)
    /\ HasId(tabB.cart, 2) /\ ~HasId(cart, 2)
    /\ storage = Item(JSONstringify(tabB.cart))
    /\ ~TextHasId(storage, 1)

====
